---- MODULE Spec2Model ----
(***************************************************************************)
(* Content indexing and integrity validation of the cheat sheet:           *)
(*   utils/topicIndex.ts    generateTopicKey, buildTopicIndex,             *)
(*                          createCategoryIndex                            *)
(*   utils/topicHelpers.ts  createTopic, createCategory, topic, category   *)
(*   utils/validation.ts    validateTopics                                 *)
(*   utils/topicIndex.ts    getTopic, getAllTopicKeys, getTopicsByTag,     *)
(*                          getTopicsByDifficulty                          *)
(*   utils/validation.ts    assertValidTopics                              *)
(*   data/react/index.ts    the index module of a section                  *)
(*   config/routes.ts       getTopicRoute, getTopicTypeFromPath            *)
(*   components             TopicSection, Content                          *)
(* A JavaScript string is a sequence of one-character strings.             *)
(***************************************************************************)
EXTENDS Integers, Sequences, FiniteSets, TLC

VARIABLES
  pc,          \* position of the run: SpecKey "title" -> "key" -> "rekey";
               \*   Spec and SpecQuery "author" -> "built" -> "validated";
               \*   SpecTopic "call" -> "return";
               \*   SpecModule "author" -> "built" -> "asserted" -> "exported";
               \*   SpecRoute "call" -> "route" -> "type";
               \*   SpecContent "call" -> "rendered"
  title,       \* the string handed to generateTopicKey
  key,         \* generateTopicKey(title)
  rekey,       \* generateTopicKey(key)
  categories,  \* the authored TopicCategory[] handed to createCategoryIndex
  index,       \* the CategoryIndex { categories, topicIndex }
  errors,      \* the ValidationError[] returned by validateTopics
  console,     \* what console.warn and console.error have printed
  request,     \* the last call of a query, a helper or a component: [op, ...]
  response,    \* what that call returned
  env,         \* import.meta.env of the build: [DEV]
  topicType    \* what getTopicTypeFromPath returned

vars == <<pc, title, key, rekey, categories, index, errors, console,
          request, response, env, topicType>>

----
\* Bounds of the model.
MaxTitleLen == 4      \* longest generated title of SpecKey
MaxTopics == 3        \* topics authored over all categories
MaxCategories == 2    \* categories handed to createCategoryIndex
PadLen == 2           \* whitespace put around a padded content

----
\* Characters.
Upper == <<"A","B","C","D","E","F","G","H","I","J","K","L","M",
           "N","O","P","Q","R","S","T","U","V","W","X","Y","Z">>
Lower == <<"a","b","c","d","e","f","g","h","i","j","k","l","m",
           "n","o","p","q","r","s","t","u","v","w","x","y","z">>
Digits == {"0","1","2","3","4","5","6","7","8","9"}
LowerAlnum == {Lower[i] : i \in 1..26} \cup Digits
Whitespace == {" ", "\t", "\n"}      \* representatives of the class \s
Hyphen == "-"

\* String.prototype.toLowerCase on one character.
toLowerCaseCharIdentity(c) == c
toLowerCaseChar(c) ==
  IF \E i \in 1..26 : Upper[i] = c
  THEN Lower[CHOOSE i \in 1..26 : Upper[i] = c]
  ELSE c

\* .toLowerCase()
toLowerCase(s) == [i \in 1..Len(s) |-> toLowerCaseChar(s[i])]

\* .replace(/[^a-z0-9\s-]/g, '')
IsKept(c) == c \in LowerAlnum \/ c \in Whitespace \/ c = Hyphen
RemoveSpecialKeepAll(s) == s
RemoveSpecial(s) == SelectSeq(s, IsKept)

\* The rest of s after its longest prefix of characters of class.
RECURSIVE SkipRun(_, _)
SkipRun(s, class) ==
  IF s # <<>> /\ Head(s) \in class THEN SkipRun(Tail(s), class) ELSE s

\* s.replace(/C+/g, rep) for a character class C: every maximal run of
\* characters of class becomes rep.
RECURSIVE ReplaceRuns(_, _, _)
ReplaceRuns(s, class, rep) ==
  IF s = <<>> THEN <<>>
  ELSE IF Head(s) \in class
       THEN rep \o ReplaceRuns(SkipRun(s, class), class, rep)
       ELSE <<Head(s)>> \o ReplaceRuns(Tail(s), class, rep)

\* .replace(/\s+/g, '-')
SpacesToHyphens(s) == ReplaceRuns(s, Whitespace, <<Hyphen>>)

\* .replace(/-+/g, '-')
CollapseHyphensSkipped(s) == s
CollapseHyphens(s) == ReplaceRuns(s, {Hyphen}, <<Hyphen>>)

\* .replace(/^-|-$/g, ''): one hyphen at the start and one at the end.
TrimHyphensLeadingOnly(s) ==
  IF s # <<>> /\ Head(s) = Hyphen THEN Tail(s) ELSE s
TrimHyphens(s) ==
  LET a == IF s # <<>> /\ Head(s) = Hyphen THEN Tail(s) ELSE s
  IN IF a # <<>> /\ a[Len(a)] = Hyphen THEN SubSeq(a, 1, Len(a) - 1) ELSE a

\* String.prototype.trim
RECURSIVE TrimEnd(_)
TrimEnd(s) ==
  IF s # <<>> /\ s[Len(s)] \in Whitespace
  THEN TrimEnd(SubSeq(s, 1, Len(s) - 1)) ELSE s
Trim(s) == TrimEnd(SkipRun(s, Whitespace))

generateTopicKey(t) ==
  Trim(TrimHyphens(CollapseHyphens(SpacesToHyphens(RemoveSpecial(toLowerCase(t))))))

----
\* Strings of the sources and of the properties.
VarLetConst == <<"v","a","r"," ","v","s","."," ","l","e","t"," ","v","s","."," ",
                 "c","o","n","s","t">>
VarLetConstKey == <<"v","a","r","-","v","s","-","l","e","t","-","v","s","-",
                    "c","o","n","s","t">>
UseState == <<"u","s","e","S","t","a","t","e">>
UseStateKey == <<"u","s","e","s","t","a","t","e">>
Bangs == <<"!","!","!">>
NonexistentKey == <<"n","o","n","e","x","i","s","t","e","n","t","-","k","e","y">>

\* All sequences over S of length at most n.
RECURSIVE SeqsUpTo(_, _)
SeqsUpTo(S, n) ==
  IF n = 0 THEN {<<>>}
  ELSE LET shorter == SeqsUpTo(S, n - 1)
       IN shorter \cup {Append(s, c) : s \in {t \in shorter : Len(t) = n - 1}, c \in S}

\* Titles handed to generateTopicKey: every string of at most MaxTitleLen
\* characters over one character of each kind, and the documented titles.
TitleAlphabet == {"a", "B", "1", " ", "\t", "-", "!", "."}
KeyTitles == SeqsUpTo(TitleAlphabet, MaxTitleLen) \cup {VarLetConst, UseState, Bangs}

----
\* The pipeline state that SpecKey leaves alone, and the key state that Spec
\* leaves alone.
NoIndex == [categories |-> <<>>, topicIndex |-> <<>>]
NoRequest == [op |-> "none"]
queryVars == <<request, response>>
pipelineVars == <<categories, index, errors, console, request, response>>
keyVars == <<title, key, rekey>>
routeVars == <<env, topicType>>
DevelopmentEnv == [DEV |-> TRUE]
ProductionEnv == [DEV |-> FALSE]
\* null where a string is expected: no string of the model (a sequence of
\* one-character strings) equals it.
Null == <<"null">>

InitKey ==
  /\ pc = "title"
  /\ title \in KeyTitles
  /\ key = <<>>
  /\ rekey = <<>>
  /\ categories = <<>>
  /\ index = NoIndex
  /\ errors = <<>>
  /\ console = <<>>
  /\ request = NoRequest
  /\ response = <<>>
  /\ env = DevelopmentEnv
  /\ topicType = Null

\* key = generateTopicKey(title)
GenerateTopicKey ==
  /\ pc = "title"
  /\ key' = generateTopicKey(title)
  /\ pc' = "key"
  /\ UNCHANGED <<title, rekey>>
  /\ UNCHANGED pipelineVars
  /\ UNCHANGED routeVars

\* rekey = generateTopicKey(key)
RegenerateTopicKey ==
  /\ pc = "key"
  /\ rekey' = generateTopicKey(key)
  /\ pc' = "rekey"
  /\ UNCHANGED <<title, key>>
  /\ UNCHANGED pipelineVars
  /\ UNCHANGED routeVars

NextKey == GenerateTopicKey \/ RegenerateTopicKey

SpecKey == InitKey /\ [][NextKey]_vars

----
\* Topics and categories (utils/topicHelpers.ts).
MinContentLength == 50

DEFAULT_METADATA ==
  [difficulty |-> "intermediate", tags |-> <<>>, prerequisites |-> <<>>]

\* { ...defaults, ...overrides }
SpreadDefaultsWin(defaults, overrides) ==
  [f \in DOMAIN defaults \cup DOMAIN overrides |->
     IF f \in DOMAIN defaults THEN defaults[f] ELSE overrides[f]]
Spread(defaults, overrides) ==
  [f \in DOMAIN defaults \cup DOMAIN overrides |->
     IF f \in DOMAIN overrides THEN overrides[f] ELSE defaults[f]]

\* ref is the identity of the object the call allocates: two topics built from
\* equal arguments are still two objects.
createTopic(ref, t, content, metadata) ==
  [ref |-> ref, key |-> generateTopicKey(t), title |-> t,
   content |-> content, metadata |-> Spread(DEFAULT_METADATA, metadata)]

createCategory(t, topics) == [title |-> t, topics |-> topics]

topic(ref, t, content, tags, difficulty, prerequisites) ==
  createTopic(ref, t, content,
              [tags |-> tags, difficulty |-> difficulty,
               prerequisites |-> prerequisites])

\* topic(title, content, ...rest): rest holds the arguments the caller gave
\* for tags, difficulty and prerequisites, in this order; a parameter without
\* argument takes its default value.
topicCall(ref, t, content, rest) ==
  topic(ref, t, content,
        IF Len(rest) >= 1 THEN rest[1] ELSE <<>>,
        IF Len(rest) >= 2 THEN rest[2] ELSE "intermediate",
        IF Len(rest) >= 3 THEN rest[3] ELSE <<>>)

category(t, topics) == createCategory(t, topics)

----
\* Map<string, Topic>: the entries in insertion order; set() of a key the map
\* holds replaces the value in place.
Undefined == [undefined |-> TRUE]
MapHas(m, k) == \E i \in 1..Len(m) : m[i].key = k
MapGet(m, k) ==
  IF MapHas(m, k) THEN m[CHOOSE i \in 1..Len(m) : m[i].key = k].value
  ELSE Undefined
MapSetAppend(m, k, v) == Append(m, [key |-> k, value |-> v])
MapSetKeepFirst(m, k, v) ==
  IF MapHas(m, k) THEN m ELSE Append(m, [key |-> k, value |-> v])
MapSet(m, k, v) ==
  IF MapHas(m, k)
  THEN [m EXCEPT ![CHOOSE i \in 1..Len(m) : m[i].key = k].value = v]
  ELSE Append(m, [key |-> k, value |-> v])

\* Array.from(m.keys()) and the sequence m.values() iterates.
MapKeys(m) == [i \in 1..Len(m) |-> m[i].key]
MapValues(m) == [i \in 1..Len(m) |-> m[i].value]

\* Array.prototype.includes
Includes(s, x) == \E i \in 1..Len(s) : s[i] = x

\* Set<string>
SetHas(s, k) == k \in s
SetAdd(s, k) == s \cup {k}

\* console.warn(`Duplicate topic key detected: "${topic.key}"`)
DuplicateWarning(k) ==
  [level |-> "warn", text |-> "Duplicate topic key detected", key |-> k]

\* The body of the inner loop of buildTopicIndex on st = [index, console].
IndexTopicByTitle(t, st) ==
  [index |-> MapSet(st.index, t.title, t),
   console |-> IF MapHas(st.index, t.title)
               THEN Append(st.console, DuplicateWarning(t.title))
               ELSE st.console]
IndexTopicSilent(t, st) ==
  [index |-> MapSet(st.index, t.key, t), console |-> st.console]
IndexTopicSkipEmptyKey(t, st) ==
  IF t.key = <<>> THEN st
  ELSE [index |-> MapSet(st.index, t.key, t),
        console |-> IF MapHas(st.index, t.key)
                    THEN Append(st.console, DuplicateWarning(t.key))
                    ELSE st.console]
IndexTopic(t, st) ==
  [index |-> MapSet(st.index, t.key, t),
   console |-> IF MapHas(st.index, t.key)
               THEN Append(st.console, DuplicateWarning(t.key))
               ELSE st.console]

\* for (const topic of category.topics)
RECURSIVE IndexTopics(_, _)
IndexTopics(topics, st) ==
  IF topics = <<>> THEN st
  ELSE IndexTopics(Tail(topics), IndexTopic(Head(topics), st))

\* for (const category of categories)
RECURSIVE IndexCategories(_, _)
IndexCategories(cats, st) ==
  IF cats = <<>> THEN st
  ELSE IndexCategories(Tail(cats), IndexTopics(Head(cats).topics, st))

\* The map it returns and the console it leaves, from console con.
buildTopicIndex(cats, con) ==
  IndexCategories(cats, [index |-> <<>>, console |-> con])

createCategoryIndexIndexedOnly(cats) ==
  LET m == buildTopicIndex(cats, <<>>).index
      Indexed(t) == MapGet(m, t.key) = t
  IN [categories |-> [c \in 1..Len(cats) |->
                        [cats[c] EXCEPT !.topics = SelectSeq(@, Indexed)]],
      topicIndex |-> m]
createCategoryIndex(cats) ==
  [categories |-> cats, topicIndex |-> buildTopicIndex(cats, <<>>).index]

\* The query layer; its index parameter is the Map.
getTopic(m, k) == MapGet(m, k)

getAllTopicKeys(m) == MapKeys(m)

getTopicsByTagFirstTagOnly(m, tag) ==
  LET Tagged(t) == t.metadata.tags # <<>> /\ t.metadata.tags[1] = tag
  IN SelectSeq(MapValues(m), Tagged)
getTopicsByTag(m, tag) ==
  LET Tagged(t) == Includes(t.metadata.tags, tag)
  IN SelectSeq(MapValues(m), Tagged)

getTopicsByDifficultyFirstOnly(m, difficulty) ==
  LET Level(t) == t.metadata.difficulty = difficulty
      found == SelectSeq(MapValues(m), Level)
  IN IF found = <<>> THEN <<>> ELSE <<Head(found)>>
getTopicsByDifficulty(m, difficulty) ==
  LET Level(t) == t.metadata.difficulty = difficulty
  IN SelectSeq(MapValues(m), Level)

----
\* utils/validation.ts
DuplicateKeyError(t) ==
  [type |-> "duplicate_key",
   message |-> [text |-> "Duplicate topic key", args |-> <<t.key>>],
   topic |-> t.key]
MissingTitleError(t) ==
  [type |-> "missing_title",
   message |-> [text |-> "Topic with key has no title", args |-> <<t.key>>],
   topic |-> t.key]
EmptyContentError(t) ==
  [type |-> "empty_content",
   message |-> [text |-> "Topic has very short or empty content",
                args |-> <<t.title>>],
   topic |-> t.key]
InvalidPrerequisiteError(t, prereq) ==
  [type |-> "invalid_prerequisite",
   message |-> [text |-> "Topic has invalid prerequisite",
                args |-> <<t.title, prereq>>],
   topic |-> t.key]

\* topic.metadata.prerequisites ?? []
PrerequisitesOf(t) ==
  IF "prerequisites" \in DOMAIN t.metadata THEN t.metadata.prerequisites
  ELSE <<>>

\* if (seenKeys.has(topic.key)) errors.push(duplicate_key)
DuplicateCheckAgainstIndex(t, seenKeys, topicIndex) ==
  IF MapHas(topicIndex, t.key) THEN <<DuplicateKeyError(t)>> ELSE <<>>
DuplicateCheck(t, seenKeys, topicIndex) ==
  IF SetHas(seenKeys, t.key) THEN <<DuplicateKeyError(t)>> ELSE <<>>

\* if (!topic.title || topic.title.trim().length === 0) errors.push(missing_title)
TitleCheckEmptyOnly(t) ==
  IF t.title = <<>> THEN <<MissingTitleError(t)>> ELSE <<>>
TitleCheckDerivedKey(t) ==
  IF t.title = <<>> \/ Len(Trim(t.title)) = 0 \/ t.key = <<>>
  THEN <<MissingTitleError(t)>> ELSE <<>>
TitleCheck(t) ==
  IF t.title = <<>> \/ Len(Trim(t.title)) = 0
  THEN <<MissingTitleError(t)>> ELSE <<>>

\* if (!topic.content || topic.content.trim().length < 50) errors.push(empty_content)
ContentCheckUntrimmed(t) ==
  IF t.content = <<>> \/ Len(t.content) < MinContentLength
  THEN <<EmptyContentError(t)>> ELSE <<>>
ContentCheck(t) ==
  IF t.content = <<>> \/ Len(Trim(t.content)) < MinContentLength
  THEN <<EmptyContentError(t)>> ELSE <<>>

\* for (const prereq of ...) if (!index.topicIndex.has(prereq)) errors.push(...)
RECURSIVE PrerequisiteScan(_, _, _)
PrerequisiteScan(t, prereqs, topicIndex) ==
  IF prereqs = <<>> THEN <<>>
  ELSE (IF ~MapHas(topicIndex, Head(prereqs))
        THEN <<InvalidPrerequisiteError(t, Head(prereqs))>> ELSE <<>>)
       \o PrerequisiteScan(t, Tail(prereqs), topicIndex)
PrerequisiteCheckFirstOnly(t, topicIndex) ==
  LET prereqs == PrerequisitesOf(t)
  IN PrerequisiteScan(t, IF prereqs = <<>> THEN <<>> ELSE <<Head(prereqs)>>,
                      topicIndex)
PrerequisiteCheck(t, topicIndex) ==
  PrerequisiteScan(t, PrerequisitesOf(t), topicIndex)

\* The body of the inner loop of validateTopics on st = [errors, seenKeys].
ValidateTopicSeenPrerequisites(t, st, topicIndex) ==
  LET Unseen(k) == ~SetHas(SetAdd(st.seenKeys, t.key), k)
      unseen == SelectSeq(PrerequisitesOf(t), Unseen)
  IN [errors |-> st.errors \o DuplicateCheck(t, st.seenKeys, topicIndex)
                           \o TitleCheck(t)
                           \o ContentCheck(t)
                           \o [i \in 1..Len(unseen) |->
                                 InvalidPrerequisiteError(t, unseen[i])],
      seenKeys |-> SetAdd(st.seenKeys, t.key)]
ValidateTopicHalting(t, st, topicIndex) ==
  IF st.errors # <<>> THEN st
  ELSE [errors |-> st.errors \o DuplicateCheck(t, st.seenKeys, topicIndex)
                             \o TitleCheck(t)
                             \o ContentCheck(t)
                             \o PrerequisiteCheck(t, topicIndex),
        seenKeys |-> SetAdd(st.seenKeys, t.key)]
ValidateTopic(t, st, topicIndex) ==
  [errors |-> st.errors \o DuplicateCheck(t, st.seenKeys, topicIndex)
                        \o TitleCheck(t)
                        \o ContentCheck(t)
                        \o PrerequisiteCheck(t, topicIndex),
   seenKeys |-> SetAdd(st.seenKeys, t.key)]

\* for (const topic of category.topics)
RECURSIVE ValidateCategoryTopics(_, _, _)
ValidateCategoryTopics(topics, st, topicIndex) ==
  IF topics = <<>> THEN st
  ELSE ValidateCategoryTopics(Tail(topics),
                              ValidateTopic(Head(topics), st, topicIndex),
                              topicIndex)

\* for (const category of index.categories)
RECURSIVE ValidateCategoriesFreshSet(_, _, _)
RECURSIVE ValidateCategories(_, _, _)
ValidateCategoriesFreshSet(cats, st, topicIndex) ==
  IF cats = <<>> THEN st
  ELSE ValidateCategoriesFreshSet(
         Tail(cats),
         ValidateCategoryTopics(Head(cats).topics,
                                [errors |-> st.errors, seenKeys |-> {}],
                                topicIndex),
         topicIndex)
ValidateCategories(cats, st, topicIndex) ==
  IF cats = <<>> THEN st
  ELSE ValidateCategories(Tail(cats),
                          ValidateCategoryTopics(Head(cats).topics, st, topicIndex),
                          topicIndex)

validateTopicsIndexedOnly(idx) ==
  ValidateCategoryTopics([i \in 1..Len(idx.topicIndex) |-> idx.topicIndex[i].value],
                         [errors |-> <<>>, seenKeys |-> {}],
                         idx.topicIndex).errors
validateTopics(idx) ==
  ValidateCategories(idx.categories, [errors |-> <<>>, seenKeys |-> {}],
                     idx.topicIndex).errors

----
\* The authored content: what the data modules hand to topic() and category().
Body(n) == [i \in 1..n |-> "c"]
Pad == [i \in 1..PadLen |-> " "]
LongContent == Body(MinContentLength + 10)
Contents ==
  {Body(0), Body(MinContentLength - 1), Body(MinContentLength),
   Pad \o Body(MinContentLength - 1) \o Pad, LongContent}

TitleX == <<"X">>
TitleY == <<"Y">>
KeyX == <<"x">>
KeyY == <<"y">>
TopicTitles == {TitleX, TitleY, <<>>, <<" ">>, Bangs}
PrerequisiteLists ==
  {<<>>, <<KeyY>>, <<NonexistentKey>>, <<NonexistentKey, KeyY, NonexistentKey>>}
TagLists == {<<>>, <<"hooks">>}
Difficulties == {"beginner", "intermediate", "advanced"}
CategoryTitles == {<<"A">>}

\* The arguments of one topic() call.  The reference call is
\* topic("X", LongContent); an authored topic departs from it in at most one
\* argument.
ReferenceInput ==
  [title |-> TitleX, content |-> LongContent, tags |-> <<>>,
   difficulty |-> "intermediate", prerequisites |-> <<>>]
TopicInputs ==
  {[ReferenceInput EXCEPT !.title = t] : t \in TopicTitles}
  \cup {[ReferenceInput EXCEPT !.content = c] : c \in Contents}
  \cup {[ReferenceInput EXCEPT !.tags = g] : g \in TagLists}
  \cup {[ReferenceInput EXCEPT !.difficulty = d] : d \in Difficulties}
  \cup {[ReferenceInput EXCEPT !.prerequisites = p] : p \in PrerequisiteLists}

\* The topics of all categories in iteration order.
RECURSIVE AllTopics(_)
AllTopics(cats) ==
  IF cats = <<>> THEN <<>> ELSE Head(cats).topics \o AllTopics(Tail(cats))

Init ==
  /\ pc = "author"
  /\ title = <<>>
  /\ key = <<>>
  /\ rekey = <<>>
  /\ categories = <<>>
  /\ index = NoIndex
  /\ errors = <<>>
  /\ console = <<>>
  /\ request = NoRequest
  /\ response = <<>>
  /\ env = DevelopmentEnv
  /\ topicType = Null

\* category(t, [topic(...), ...]): one more authored category, its topics
\* made from arguments of the set topicInputs.
Author(topicInputs) ==
  /\ pc = "author"
  /\ Len(categories) < MaxCategories
  /\ LET made == Len(AllTopics(categories))
     IN \E t \in CategoryTitles, n \in 0..(MaxTopics - made) :
          \E inputs \in [1..n -> topicInputs] :
            categories' = Append(categories,
              category(t, [i \in 1..n |->
                             topic(made + i, inputs[i].title, inputs[i].content,
                                   inputs[i].tags, inputs[i].difficulty,
                                   inputs[i].prerequisites)]))
  /\ UNCHANGED <<pc, index, errors, console>>
  /\ UNCHANGED queryVars
  /\ UNCHANGED keyVars
  /\ UNCHANGED routeVars

CreateCategory == Author(TopicInputs)

\* index = createCategoryIndex(categories)
CreateCategoryIndexRejecting ==
  /\ pc = "author"
  /\ \A i, j \in 1..Len(AllTopics(categories)) :
       i # j => AllTopics(categories)[i].key # AllTopics(categories)[j].key
  /\ index' = createCategoryIndex(categories)
  /\ console' = buildTopicIndex(categories, console).console
  /\ pc' = "built"
  /\ UNCHANGED <<categories, errors>>
  /\ UNCHANGED queryVars
  /\ UNCHANGED keyVars
  /\ UNCHANGED routeVars
CreateCategoryIndex ==
  /\ pc = "author"
  /\ index' = createCategoryIndex(categories)
  /\ console' = buildTopicIndex(categories, console).console
  /\ pc' = "built"
  /\ UNCHANGED <<categories, errors>>
  /\ UNCHANGED queryVars
  /\ UNCHANGED keyVars
  /\ UNCHANGED routeVars

\* errors = validateTopics(index)
ValidateTopics ==
  /\ pc = "built"
  /\ errors' = validateTopics(index)
  /\ pc' = "validated"
  /\ UNCHANGED <<categories, index, console>>
  /\ UNCHANGED queryVars
  /\ UNCHANGED keyVars
  /\ UNCHANGED routeVars

Next == CreateCategory \/ CreateCategoryIndex \/ ValidateTopics

Spec == Init /\ [][Next]_vars

----
\* The query layer on a built and validated index.  The authored topics differ
\* in title, tags and difficulty.
TaggedInputs ==
  {[ReferenceInput EXCEPT !.title = t, !.difficulty = d] :
     t \in {TitleX, TitleY}, d \in Difficulties}
  \cup {[ReferenceInput EXCEPT !.title = t, !.tags = <<"hooks">>] :
          t \in {TitleX, TitleY}}
  \cup {[ReferenceInput EXCEPT !.tags = <<"state", "hooks">>]}
QueriedKeys == {KeyX, KeyY, NonexistentKey}
QueriedTags == {"hooks", "state", "css"}

CreateTaggedCategory == Author(TaggedInputs)

\* The index is handed to the queries once its module has run.
Serving == pc \in {"validated", "exported"}

\* getTopic(index.topicIndex, k)
GetTopic ==
  /\ Serving
  /\ \E k \in QueriedKeys :
       /\ request' = [op |-> "getTopic", key |-> k]
       /\ response' = getTopic(index.topicIndex, k)
  /\ UNCHANGED <<pc, categories, index, errors, console>>
  /\ UNCHANGED keyVars
  /\ UNCHANGED routeVars

\* getAllTopicKeys(index.topicIndex)
GetAllTopicKeys ==
  /\ Serving
  /\ request' = [op |-> "getAllTopicKeys"]
  /\ response' = getAllTopicKeys(index.topicIndex)
  /\ UNCHANGED <<pc, categories, index, errors, console>>
  /\ UNCHANGED keyVars
  /\ UNCHANGED routeVars

\* getTopicsByTag(index.topicIndex, tag)
GetTopicsByTag ==
  /\ Serving
  /\ \E tag \in QueriedTags :
       /\ request' = [op |-> "getTopicsByTag", tag |-> tag]
       /\ response' = getTopicsByTag(index.topicIndex, tag)
  /\ UNCHANGED <<pc, categories, index, errors, console>>
  /\ UNCHANGED keyVars
  /\ UNCHANGED routeVars

\* getTopicsByDifficulty(index.topicIndex, d)
GetTopicsByDifficulty ==
  /\ Serving
  /\ \E d \in Difficulties :
       /\ request' = [op |-> "getTopicsByDifficulty", difficulty |-> d]
       /\ response' = getTopicsByDifficulty(index.topicIndex, d)
  /\ UNCHANGED <<pc, categories, index, errors, console>>
  /\ UNCHANGED keyVars
  /\ UNCHANGED routeVars

NextQuery ==
  \/ CreateTaggedCategory
  \/ CreateCategoryIndex
  \/ ValidateTopics
  \/ GetTopic
  \/ GetAllTopicKeys
  \/ GetTopicsByTag
  \/ GetTopicsByDifficulty

SpecQuery == Init /\ [][NextQuery]_vars

----
\* The index module of a content section (data/react/index.ts and the like):
\*   export const reactData = createCategoryIndex([...]);
\*   assertValidTopics(reactData);
\*   export const reactCategories = reactData.categories; ...

\* console.error('Topic validation errors:', errors)
ValidationErrorsLog(errs) ==
  [level |-> "error", text |-> "Topic validation errors:", errors |-> errs]
\* console.warn(`Found ${errors.length} topic validation error(s). ...`)
ValidationCountLog(errs) ==
  [level |-> "warn", text |-> "Found topic validation error(s)",
   count |-> Len(errs)]

\* assertValidTopics(index) under the build environment e, from console con:
\* the errors it computed, the console it leaves and how it completes.
assertValidTopicsThrowing(idx, e, con) ==
  IF e.DEV
  THEN LET errs == validateTopics(idx)
       IN IF Len(errs) > 0
          THEN [errors |-> errs,
                console |-> Append(con, ValidationErrorsLog(errs)),
                completion |-> "throw"]
          ELSE [errors |-> errs, console |-> con, completion |-> "normal"]
  ELSE [errors |-> <<>>, console |-> con, completion |-> "normal"]
assertValidTopicsUngated(idx, e, con) ==
  LET errs == validateTopics(idx)
  IN IF Len(errs) > 0
     THEN [errors |-> errs,
           console |-> con \o <<ValidationErrorsLog(errs), ValidationCountLog(errs)>>,
           completion |-> "normal"]
     ELSE [errors |-> errs, console |-> con, completion |-> "normal"]
assertValidTopics(idx, e, con) ==
  IF e.DEV
  THEN LET errs == validateTopics(idx)
       IN IF Len(errs) > 0
          THEN [errors |-> errs,
                console |-> con \o <<ValidationErrorsLog(errs),
                                     ValidationCountLog(errs)>>,
                completion |-> "normal"]
          ELSE [errors |-> errs, console |-> con, completion |-> "normal"]
  ELSE [errors |-> <<>>, console |-> con, completion |-> "normal"]

\* The topics of a section: the reference topic, a blank title, an empty
\* content and a list of prerequisites none of which resolves.
ModuleInputs ==
  {ReferenceInput,
   [ReferenceInput EXCEPT !.title = <<" ">>],
   [ReferenceInput EXCEPT !.content = Body(0)],
   [ReferenceInput EXCEPT !.prerequisites = <<NonexistentKey, KeyY, NonexistentKey>>]}

InitModule ==
  /\ pc = "author"
  /\ env \in {DevelopmentEnv, ProductionEnv}
  /\ title = <<>>
  /\ key = <<>>
  /\ rekey = <<>>
  /\ categories = <<>>
  /\ index = NoIndex
  /\ errors = <<>>
  /\ console = <<>>
  /\ request = NoRequest
  /\ response = <<>>
  /\ topicType = Null

CreateSectionCategory == Author(ModuleInputs)

\* assertValidTopics(reactData): an exception would end the evaluation of the
\* module before its exports are bound.
AssertValidTopicsRepairing ==
  /\ pc = "built"
  /\ LET r == assertValidTopics(index, env, console)
     IN /\ errors' = r.errors
        /\ console' = r.console
        /\ pc' = IF r.completion = "normal" THEN "asserted" ELSE "thrown"
  /\ index' = createCategoryIndexIndexedOnly(categories)
  /\ UNCHANGED <<categories, env, topicType>>
  /\ UNCHANGED queryVars
  /\ UNCHANGED <<title, key, rekey>>
AssertValidTopics ==
  /\ pc = "built"
  /\ LET r == assertValidTopics(index, env, console)
     IN /\ errors' = r.errors
        /\ console' = r.console
        /\ pc' = IF r.completion = "normal" THEN "asserted" ELSE "thrown"
  /\ UNCHANGED <<categories, index, env, topicType>>
  /\ UNCHANGED queryVars
  /\ UNCHANGED <<title, key, rekey>>

\* export const reactCategories = reactData.categories;
\* export const reactTopicIndex = reactData.topicIndex;
ExportIndex ==
  /\ pc = "asserted"
  /\ pc' = "exported"
  /\ UNCHANGED <<categories, index, errors, console, env, topicType>>
  /\ UNCHANGED queryVars
  /\ UNCHANGED <<title, key, rekey>>

NextModule ==
  \/ CreateSectionCategory
  \/ CreateCategoryIndex
  \/ AssertValidTopics
  \/ ExportIndex
  \/ GetTopic
  \/ GetAllTopicKeys
  \/ GetTopicsByTag
  \/ GetTopicsByDifficulty

SpecModule == InitModule /\ [][NextModule]_vars

----
\* Sections whose titles give colliding keys: two titles with a key of their
\* own, two titles of disallowed characters only, the same with a content of
\* exactly the required length, and a topic without content.
Question == <<"?">>
CollidingInputs ==
  {ReferenceInput,
   [ReferenceInput EXCEPT !.title = TitleY],
   [ReferenceInput EXCEPT !.title = Bangs],
   [ReferenceInput EXCEPT !.title = Question],
   [ReferenceInput EXCEPT !.title = Bangs, !.content = Body(MinContentLength)],
   [ReferenceInput EXCEPT !.content = Body(0)]}

CreateCollidingCategory == Author(CollidingInputs)

NextCollision == CreateCollidingCategory \/ CreateCategoryIndex \/ ValidateTopics

SpecCollision == Init /\ [][NextCollision]_vars

----
\* Sections whose topics name each other as prerequisites: the two titles,
\* each without prerequisite, with the key of one of the titles or with an
\* unknown key as its prerequisite.
LinkedInputs ==
  {[ReferenceInput EXCEPT !.title = t, !.prerequisites = p] :
     t \in {TitleX, TitleY},
     p \in {<<>>, <<KeyX>>, <<KeyY>>, <<NonexistentKey>>}}

CreateLinkedCategory == Author(LinkedInputs)

NextLinked == CreateLinkedCategory \/ CreateCategoryIndex \/ ValidateTopics

SpecLinked == Init /\ [][NextLinked]_vars

----
\* One call of createTopic or of topic.
MetadataFields == {"difficulty", "tags", "prerequisites"}
FullMetadata ==
  [difficulty : Difficulties, tags : TagLists, prerequisites : PrerequisiteLists]

\* Partial<TopicMetadata>: any of the fields, each with a value of its type.
PartialMetadata ==
  {[f \in fields |-> full[f]] : full \in FullMetadata, fields \in SUBSET MetadataFields}

\* The arguments after (title, content) of a call of topic.
RestArguments ==
  {<<>>}
  \cup {<<g>> : g \in TagLists}
  \cup {<<g, d>> : g \in TagLists, d \in Difficulties}
  \cup {<<g, d, p>> : g \in TagLists, d \in Difficulties, p \in PrerequisiteLists}

CalledTitles == TopicTitles \cup {VarLetConst, UseState}
TopicCalls ==
  {[op |-> "createTopic", title |-> t, content |-> c, metadata |-> m] :
     t \in CalledTitles, c \in {Body(0), LongContent}, m \in PartialMetadata}
  \cup {[op |-> "topic", title |-> t, content |-> c, rest |-> r] :
          t \in CalledTitles, c \in {Body(0), LongContent}, r \in RestArguments}

InitTopic ==
  /\ pc = "call"
  /\ request \in TopicCalls
  /\ response = <<>>
  /\ title = <<>>
  /\ key = <<>>
  /\ rekey = <<>>
  /\ categories = <<>>
  /\ index = NoIndex
  /\ errors = <<>>
  /\ console = <<>>
  /\ env = DevelopmentEnv
  /\ topicType = Null

\* response = createTopic(title, content, metadata)
CreateTopic ==
  /\ pc = "call"
  /\ request.op = "createTopic"
  /\ response' = createTopic(1, request.title, request.content, request.metadata)
  /\ pc' = "return"
  /\ UNCHANGED <<request, categories, index, errors, console>>
  /\ UNCHANGED keyVars
  /\ UNCHANGED routeVars

\* response = topic(title, content, ...rest)
Topic ==
  /\ pc = "call"
  /\ request.op = "topic"
  /\ response' = topicCall(1, request.title, request.content, request.rest)
  /\ pc' = "return"
  /\ UNCHANGED <<request, categories, index, errors, console>>
  /\ UNCHANGED keyVars
  /\ UNCHANGED routeVars

NextTopic == CreateTopic \/ Topic

SpecTopic == InitTopic /\ [][NextTopic]_vars

----
\* config/routes.ts
StrJavascript == <<"j", "a", "v", "a", "s", "c", "r", "i", "p", "t">>
StrTypescript == <<"t", "y", "p", "e", "s", "c", "r", "i", "p", "t">>
StrReact == <<"r", "e", "a", "c", "t">>
StrAngular == <<"a", "n", "g", "u", "l", "a", "r">>
TopicTypes == {StrJavascript, StrTypescript, StrReact, StrAngular}

\* export const ROUTES = { HOME: '/', JAVASCRIPT: '/javascript', ... }
ROUTES ==
  (<<"H", "O", "M", "E">> :> <<"/">>)
  @@ (<<"J", "A", "V", "A", "S", "C", "R", "I", "P", "T">> :> <<"/", "j", "a", "v", "a", "s", "c", "r", "i", "p", "t">>)
  @@ (<<"T", "Y", "P", "E", "S", "C", "R", "I", "P", "T">> :> <<"/", "t", "y", "p", "e", "s", "c", "r", "i", "p", "t">>)
  @@ (<<"R", "E", "A", "C", "T">> :> <<"/", "r", "e", "a", "c", "t">>)
  @@ (<<"A", "N", "G", "U", "L", "A", "R">> :> <<"/", "a", "n", "g", "u", "l", "a", "r">>)
ROUTES_JAVASCRIPT == ROUTES[<<"J", "A", "V", "A", "S", "C", "R", "I", "P", "T">>]
ROUTES_TYPESCRIPT == ROUTES[<<"T", "Y", "P", "E", "S", "C", "R", "I", "P", "T">>]
ROUTES_REACT == ROUTES[<<"R", "E", "A", "C", "T">>]
ROUTES_ANGULAR == ROUTES[<<"A", "N", "G", "U", "L", "A", "R">>]

\* String.prototype.toUpperCase
toUpperCaseChar(c) ==
  IF \E i \in 1..26 : Lower[i] = c
  THEN Upper[CHOOSE i \in 1..26 : Lower[i] = c]
  ELSE c
toUpperCase(s) == [i \in 1..Len(s) |-> toUpperCaseChar(s[i])]

\* String.prototype.startsWith
startsWith(s, prefix) ==
  Len(s) >= Len(prefix) /\ SubSeq(s, 1, Len(prefix)) = prefix

\* getTopicRoute(type, topic?): rest holds the argument the caller gave for
\* topic, if any; without it topic is undefined, and undefined and '' are
\* falsy.
getTopicRouteDefinedTopic(type, rest) ==
  LET basePath == ROUTES[toUpperCase(type)]
  IN IF Len(rest) >= 1 THEN basePath \o <<"/">> \o rest[1] ELSE basePath
getTopicRoute(type, rest) ==
  LET basePath == ROUTES[toUpperCase(type)]
  IN IF Len(rest) >= 1 /\ rest[1] # <<>>
     THEN basePath \o <<"/">> \o rest[1] ELSE basePath

\* getTopicTypeFromPath(pathname)
getTopicTypeFromPathNoAngular(pathname) ==
  IF startsWith(pathname, ROUTES_TYPESCRIPT) THEN StrTypescript
  ELSE IF startsWith(pathname, ROUTES_REACT) THEN StrReact
  ELSE IF startsWith(pathname, ROUTES_JAVASCRIPT) THEN StrJavascript
  ELSE Null
getTopicTypeFromPath(pathname) ==
  IF startsWith(pathname, ROUTES_TYPESCRIPT) THEN StrTypescript
  ELSE IF startsWith(pathname, ROUTES_REACT) THEN StrReact
  ELSE IF startsWith(pathname, ROUTES_ANGULAR) THEN StrAngular
  ELSE IF startsWith(pathname, ROUTES_JAVASCRIPT) THEN StrJavascript
  ELSE Null

\* The titles of the topics the table of contents links to, and the keys and
\* pathnames handed to the route helpers directly.
LinkTitles ==
  SeqsUpTo({"a", "B", " ", "!"}, MaxTitleLen) \cup {VarLetConst, UseState, Bangs}
RouteKeys == {<<>>, KeyX, UseStateKey, VarLetConstKey}
Pathnames ==
  {<<>>, <<"/">>, <<"/", "a", "b", "o", "u", "t">>, <<"/", "j", "a", "v", "a">>, <<"/", "r", "e", "a", "c", "t", "i", "v", "e">>, <<"/", "t", "y", "p", "e", "s", "c", "r", "i", "p", "t">>, <<"/", "a", "n", "g", "u", "l", "a", "r", "/", "x">>,
   <<"/", "J", "a", "v", "a", "S", "c", "r", "i", "p", "t">>, <<"j", "a", "v", "a", "s", "c", "r", "i", "p", "t">>, <<"/", "b", "l", "o", "g", "/", "r", "e", "a", "c", "t">>, <<"/", "j", "a", "v", "a", "s", "c", "r", "i", "p", "t", "/">>}

RouteCalls ==
  {[op |-> "getTopicRoute", type |-> t, rest |-> r] :
     t \in TopicTypes, r \in {<<>>} \cup {<<k>> : k \in RouteKeys}}
  \cup {[op |-> "TopicSection", type |-> t,
         topic |-> topic(1, l, LongContent, <<>>, "intermediate", <<>>)] :
          t \in TopicTypes, l \in LinkTitles}
  \cup {[op |-> "getTopicTypeFromPath", pathname |-> p] : p \in Pathnames}

InitRoute ==
  /\ pc = "call"
  /\ request \in RouteCalls
  /\ response = <<>>
  /\ topicType = Null
  /\ env = DevelopmentEnv
  /\ title = <<>>
  /\ key = <<>>
  /\ rekey = <<>>
  /\ categories = <<>>
  /\ index = NoIndex
  /\ errors = <<>>
  /\ console = <<>>

\* response = getTopicRoute(type, topic)
GetTopicRoute ==
  /\ pc = "call"
  /\ request.op = "getTopicRoute"
  /\ response' = getTopicRoute(request.type, request.rest)
  /\ pc' = "route"
  /\ UNCHANGED <<request, categories, index, errors, console>>
  /\ UNCHANGED keyVars
  /\ UNCHANGED routeVars

\* <Link to={getTopicRoute(topicType, topic.key)}> of TopicSection
TopicSection ==
  /\ pc = "call"
  /\ request.op = "TopicSection"
  /\ response' = getTopicRoute(request.type, <<request.topic.key>>)
  /\ pc' = "route"
  /\ UNCHANGED <<request, categories, index, errors, console>>
  /\ UNCHANGED keyVars
  /\ UNCHANGED routeVars

\* topicType = getTopicTypeFromPath(pathname), the pathname being the route
\* that was followed or the one given.
GetTopicTypeFromPath ==
  /\ \/ pc = "route"
     \/ pc = "call" /\ request.op = "getTopicTypeFromPath"
  /\ topicType' = getTopicTypeFromPath(IF pc = "route" THEN response
                                       ELSE request.pathname)
  /\ pc' = "type"
  /\ UNCHANGED <<request, response, categories, index, errors, console, env>>
  /\ UNCHANGED keyVars

NextRoute == GetTopicRoute \/ TopicSection \/ GetTopicTypeFromPath

SpecRoute == InitRoute /\ [][NextRoute]_vars

----
\* components/Content.tsx and the section data it reads.  A section is a
\* TopicCategory[] whose topics are an object from topic key to Topic.

\* reactData.ts (the first two topics of two of its categories).
reactTopics ==
  <<[title |-> <<"C", "o", "r", "e", " ", "F", "u", "n", "d", "a", "m", "e", "n", "t", "a", "l", "s">>,
     topics |-> (<<"j", "s", "x">> :> [title |-> <<"J", "S", "X">>, content |-> <<>>])
                @@ (<<"p", "r", "o", "p", "s">> :> [title |-> <<"P", "r", "o", "p", "s">>, content |-> <<>>])],
    [title |-> <<"H", "o", "o", "k", "s">>,
     topics |-> (<<"u", "s", "e", "S", "t", "a", "t", "e">> :> [title |-> <<"u", "s", "e", "S", "t", "a", "t", "e">>, content |-> <<>>])
                @@ (<<"u", "s", "e", "E", "f", "f", "e", "c", "t">> :> [title |-> <<"u", "s", "e", "E", "f", "f", "e", "c", "t">>, content |-> <<>>])]>>
\* javascriptData.ts and typescriptData.ts: one category with one topic.
javascriptTopics ==
  <<[title |-> <<"C", "o", "r", "e", " ", "F", "u", "n", "d", "a", "m", "e", "n", "t", "a", "l", "s">>,
     topics |-> (<<"c", "l", "o", "s", "u", "r", "e", "s">> :> [title |-> <<"C", "l", "o", "s", "u", "r", "e", "s">>, content |-> <<>>])]>>
typescriptTopics ==
  <<[title |-> <<"F", "u", "n", "d", "a", "m", "e", "n", "t", "a", "l", "s">>,
     topics |-> (<<"g", "e", "n", "e", "r", "i", "c", "s">> :> [title |-> <<"G", "e", "n", "e", "r", "i", "c", "s">>, content |-> <<>>])]>>

\* const topicDataMap = { javascript, typescript, react }
topicDataMap ==
  (StrJavascript :> javascriptTopics)
  @@ (StrTypescript :> typescriptTopics)
  @@ (StrReact :> reactTopics)

\* Properties every object literal inherits from Object.prototype (some of
\* them); their values are functions or objects, all truthy.
ObjectPrototypeKeys ==
  {<<"c", "o", "n", "s", "t", "r", "u", "c", "t", "o", "r">>, <<"t", "o", "S", "t", "r", "i", "n", "g">>, <<"v", "a", "l", "u", "e", "O", "f">>, <<"h", "a", "s", "O", "w", "n", "P", "r", "o", "p", "e", "r", "t", "y">>, <<"_", "_", "p", "r", "o", "t", "o", "_", "_">>}

\* obj[k]: the own property, else the inherited one, else undefined.
GetProperty(obj, k) ==
  IF k \in DOMAIN obj THEN obj[k]
  ELSE IF k \in ObjectPrototypeKeys THEN [inherited |-> k]
  ELSE Undefined

NullTopic == [null |-> TRUE]

\* for (const category of topics) if (category.topics[topic]) return it
RECURSIVE FindTopic(_, _)
FindTopic(cats, k) ==
  IF cats = <<>> THEN NullTopic
  ELSE IF GetProperty(Head(cats).topics, k) # Undefined
       THEN GetProperty(Head(cats).topics, k)
       ELSE FindTopic(Tail(cats), k)

\* console.error(`Invalid topic type: ${topicType}`)
InvalidTopicTypeLog(type) ==
  [level |-> "error", text |-> "Invalid topic type", key |-> type]

\* The selectedTopic memo of Content: [selected, console].
SelectTopic(props, type, con) ==
  IF "topic" \notin DOMAIN props \/ props.topic = <<>> \/ type = Null
  THEN [selected |-> NullTopic, console |-> con]
  ELSE IF type \notin DOMAIN topicDataMap
       THEN [selected |-> NullTopic,
             console |-> Append(con, InvalidTopicTypeLog(type))]
       ELSE [selected |-> FindTopic(topicDataMap[type], props.topic),
             console |-> con]

\* topicType.charAt(0).toUpperCase() + topicType.slice(1), or 'JavaScript'
topicDisplayName(type) ==
  IF type # Null /\ type # <<>>
  THEN <<toUpperCaseChar(Head(type))>> \o Tail(type)
  ELSE <<"J", "a", "v", "a", "S", "c", "r", "i", "p", "t">>

\* What Content returns for its props at the location pathname.
Content(props, pathname, con) ==
  LET type == getTopicTypeFromPath(pathname)
      memo == SelectTopic(props, type, con)
      given == "topic" \in DOMAIN props /\ props.topic # <<>>
  IN [topicType |-> type,
      console |-> memo.console,
      view |->
        IF memo.selected = NullTopic
        THEN IF type = Null /\ given
             THEN [state |-> "Invalid Section"]
             ELSE IF given
                  THEN [state |-> "Topic Not Found", topic |-> props.topic,
                        section |-> topicDisplayName(type)]
                  ELSE [state |-> "Welcome", section |-> topicDisplayName(type)]
        ELSE [state |-> "Topic", selectedTopic |-> memo.selected]]

\* The props and locations Content is rendered with: no topic, a topic of
\* the data, a topic of no section, a property name of Object.prototype.
NoProps == [f \in {} |-> <<>>]
ContentTopics ==
  {<<"j", "s", "x">>, <<"u", "s", "e", "S", "t", "a", "t", "e">>, <<"c", "l", "o", "s", "u", "r", "e", "s">>, <<"g", "e", "n", "e", "r", "i", "c", "s">>, <<"m", "i", "s", "s", "i", "n", "g">>}
  \cup ObjectPrototypeKeys
ContentPathnames ==
  Pathnames
  \cup {getTopicRoute(t, r) :
          t \in TopicTypes, r \in {<<>>} \cup {<<k>> : k \in ContentTopics}}
ContentCalls ==
  {[op |-> "Content", props |-> p, pathname |-> l] :
     p \in {NoProps} \cup {[topic |-> k] : k \in ContentTopics},
     l \in ContentPathnames}

InitContent ==
  /\ pc = "call"
  /\ request \in ContentCalls
  /\ response = <<>>
  /\ topicType = Null
  /\ env = DevelopmentEnv
  /\ title = <<>>
  /\ key = <<>>
  /\ rekey = <<>>
  /\ categories = <<>>
  /\ index = NoIndex
  /\ errors = <<>>
  /\ console = <<>>

\* <Content topic={topic} /> at the location pathname
RenderContent ==
  /\ pc = "call"
  /\ request.op = "Content"
  /\ LET r == Content(request.props, request.pathname, console)
     IN /\ topicType' = r.topicType
        /\ console' = r.console
        /\ response' = r.view
  /\ pc' = "rendered"
  /\ UNCHANGED <<request, categories, index, errors, env>>
  /\ UNCHANGED keyVars

NextContent == RenderContent

SpecContent == InitContent /\ [][NextContent]_vars

----
\* Properties of the key generator, checked under SpecKey.

\* C1: generateTopicKey is idempotent: generating the key of a generated key
\* gives that key again.
KeyIdempotent == pc = "rekey" => rekey = key
KeyIdempotentWitness ==
  pc = "rekey" /\ key # <<>> /\ key # title /\ Len(title) = MaxTitleLen

\* ^[a-z0-9]+(-[a-z0-9]+)*$
MatchesKeyPattern(s) ==
  /\ s # <<>>
  /\ \A i \in 1..Len(s) : s[i] \in LowerAlnum \/ s[i] = Hyphen
  /\ s[1] # Hyphen
  /\ s[Len(s)] # Hyphen
  /\ \A i \in 1..(Len(s) - 1) : ~(s[i] = Hyphen /\ s[i + 1] = Hyphen)

\* C2: a generated key is the empty string or lowercase letters and digits
\* separated by single hyphens, with no hyphen at either end.
KeyFormat == pc \in {"key", "rekey"} => (key = <<>> \/ MatchesKeyPattern(key))
KeyFormatWitness ==
  /\ pc = "key"
  /\ \E i \in 1..Len(key) : key[i] = Hyphen
  /\ \E i \in 1..Len(title) : title[i] \in Whitespace
  /\ \E i \in 1..Len(title) : ~IsKept(toLowerCaseChar(title[i]))
  /\ Len(title) <= MaxTitleLen

\* A character the key generator deletes: after lowercasing it is no letter,
\* digit, whitespace or hyphen.
Disallowed(c) ==
  LET l == IF \E i \in 1..26 : Upper[i] = c
           THEN Lower[CHOOSE i \in 1..26 : Upper[i] = c] ELSE c
  IN l \notin LowerAlnum /\ l \notin Whitespace /\ l # Hyphen

\* C3: the documented titles get the documented keys, and a title made only
\* of disallowed characters gets the empty key.
KeyLiterals ==
  pc \in {"key", "rekey"} =>
    /\ (title = VarLetConst => key = VarLetConstKey)
    /\ (title = UseState => key = UseStateKey)
    /\ (title = Bangs => key = <<>>)
    /\ ((\A i \in 1..Len(title) : Disallowed(title[i])) => key = <<>>)
KeyLiteralsWitness == pc = "key" /\ title = UseState /\ key = UseStateKey

----
\* Properties of the index builder and of the validator, checked under Spec.

Built == pc \in {"built", "validated"}
Topics == AllTopics(index.categories)
Positions == 1..Len(Topics)

\* C4: when all topics have pairwise distinct keys, the index returns every
\* topic under its own key.
DistinctKeys ==
  \A i, j \in Positions : i # j => Topics[i].key # Topics[j].key
IndexOfDistinctKeys ==
  (Built /\ DistinctKeys) =>
    \A i \in Positions : MapGet(index.topicIndex, Topics[i].key) = Topics[i]
IndexOfDistinctKeysWitness ==
  /\ pc = "built"
  /\ DistinctKeys
  /\ Len(Topics) = 3
  /\ Len(index.categories) = 2
  /\ \A c \in 1..2 : index.categories[c].topics # <<>>

\* The position of the last topic in iteration order with the key of topic i.
LastWithKey(i) ==
  CHOOSE j \in Positions :
    /\ Topics[j].key = Topics[i].key
    /\ \A l \in Positions : Topics[l].key = Topics[i].key => l <= j

\* C5: under a shared key the index returns the last topic in iteration
\* order, and none of the earlier topics with that key.
IndexLastWins ==
  Built =>
    \A i \in Positions :
      /\ MapGet(index.topicIndex, Topics[i].key) = Topics[LastWithKey(i)]
      /\ i # LastWithKey(i) => MapGet(index.topicIndex, Topics[i].key) # Topics[i]
IndexLastWinsWitness ==
  /\ pc = "built"
  /\ Len(index.categories) = 2
  /\ \E a \in 1..Len(index.categories[1].topics),
        b \in 1..Len(index.categories[2].topics) :
       /\ index.categories[1].topics[a].key = index.categories[2].topics[b].key
       /\ index.categories[1].topics[a].content # index.categories[2].topics[b].content

\* The categories cut down to their first n topics in iteration order.
RECURSIVE TakeTopics(_, _)
TakeTopics(cats, n) ==
  IF cats = <<>> THEN <<>>
  ELSE LET c == Head(cats)
           m == IF n < Len(c.topics) THEN n ELSE Len(c.topics)
       IN <<[c EXCEPT !.topics = SubSeq(c.topics, 1, m)]>>
          \o TakeTopics(Tail(cats), n - m)

\* What the scan has reported once it is through the first n topics, and the
\* diagnostics of errors that the scan of topic p has added.
ErrorsAfter(n) ==
  validateTopics([categories |-> TakeTopics(index.categories, n),
                  topicIndex |-> index.topicIndex])
ErrorsOfTopic(p) ==
  SubSeq(errors, Len(ErrorsAfter(p - 1)) + 1, Len(ErrorsAfter(p)))
CountOfType(diagnostics, type) ==
  Cardinality({i \in 1..Len(diagnostics) : diagnostics[i].type = type})

\* C6: the first topic with a key gets no duplicate_key diagnostic and every
\* later topic with that key gets exactly one.
DuplicateFlagging ==
  pc = "validated" =>
    /\ \A p \in Positions :
         CountOfType(ErrorsOfTopic(p), "duplicate_key") =
           IF \E q \in 1..(p - 1) : Topics[q].key = Topics[p].key THEN 1 ELSE 0
    /\ (Len(Topics) = 2 /\ Topics[1].key = Topics[2].key) =>
         CountOfType(errors, "duplicate_key") = 1
DuplicateFlaggingWitness ==
  /\ pc = "validated"
  /\ Len(Topics) = 3
  /\ \A p \in Positions : Topics[p].key = KeyX
  /\ CountOfType(errors, "duplicate_key") = 2
  /\ errors[1].type # "duplicate_key"

\* The length of s without its leading and trailing whitespace.
RECURSIVE FirstSolid(_, _)
FirstSolid(s, i) ==
  IF i > Len(s) \/ s[i] \notin Whitespace THEN i ELSE FirstSolid(s, i + 1)
RECURSIVE LastSolid(_, _)
LastSolid(s, i) ==
  IF i < 1 \/ s[i] \notin Whitespace THEN i ELSE LastSolid(s, i - 1)
TrimmedLength(s) ==
  IF FirstSolid(s, 1) > Len(s) THEN 0
  ELSE LastSolid(s, Len(s)) - FirstSolid(s, 1) + 1

\* C7: a topic gets an empty_content diagnostic exactly when its content
\* without the surrounding whitespace is shorter than 50 characters.
ThinContentFlagging ==
  pc = "validated" =>
    \A p \in Positions :
      /\ CountOfType(ErrorsOfTopic(p), "empty_content") =
           IF TrimmedLength(Topics[p].content) < 50 THEN 1 ELSE 0
      /\ Len(Topics[p].content) \in {0, 49} =>
           CountOfType(ErrorsOfTopic(p), "empty_content") = 1
      /\ Topics[p].content = Body(50) =>
           CountOfType(ErrorsOfTopic(p), "empty_content") = 0
ThinContentFlaggingWitness ==
  /\ pc = "validated"
  /\ \E p, q, r \in Positions :
       /\ Len(Topics[p].content) >= 50
       /\ TrimmedLength(Topics[p].content) = 49
       /\ Topics[q].content = Body(50)
       /\ Topics[r].content = Body(49)
  /\ CountOfType(errors, "empty_content") = 2

\* The entries of a prerequisite list that are no key of the index.
KeysOfIndex == {index.topicIndex[i].key : i \in 1..Len(index.topicIndex)}
Dangling(prereqs) == {i \in 1..Len(prereqs) : prereqs[i] \notin KeysOfIndex}

\* C8: a topic gets one invalid_prerequisite diagnostic for each entry of its
\* prerequisites that is no key of the index, and none for the other entries.
PrerequisiteFlagging ==
  pc = "validated" =>
    \A p \in Positions :
      LET prereqs == Topics[p].metadata.prerequisites
          flagged == CountOfType(ErrorsOfTopic(p), "invalid_prerequisite")
      IN /\ flagged = Cardinality(Dangling(prereqs))
         /\ prereqs = <<NonexistentKey>> => flagged = 1
         /\ (/\ prereqs = <<KeyY>>
             /\ \E q \in Positions : q # p /\ Topics[q].key = KeyY) => flagged = 0
PrerequisiteFlaggingWitness ==
  /\ pc = "validated"
  /\ \E p, q \in Positions :
       /\ Topics[p].metadata.prerequisites = <<NonexistentKey, KeyY, NonexistentKey>>
       /\ CountOfType(ErrorsOfTopic(p), "invalid_prerequisite") = 2
       /\ q # p
       /\ Topics[q].key = KeyY

\* C9: a topic gets a missing_title diagnostic exactly when its title is
\* empty or nothing but whitespace.
MissingTitleFlagging ==
  pc = "validated" =>
    \A p \in Positions :
      CountOfType(ErrorsOfTopic(p), "missing_title") =
        IF \A i \in 1..Len(Topics[p].title) : Topics[p].title[i] \in Whitespace
        THEN 1 ELSE 0
MissingTitleFlaggingWitness ==
  /\ pc = "validated"
  /\ \E p, q, r \in Positions :
       /\ Topics[p].title = <<" ">>
       /\ Topics[q].title = <<>>
       /\ Topics[r].title = Bangs
  /\ CountOfType(errors, "missing_title") = 2

\* One category holding topic X with content shorter than 50 characters and
\* then topic X with content of 60 characters or more.
ShortThenLong ==
  /\ pc = "validated"
  /\ Len(index.categories) = 1
  /\ Len(Topics) = 2
  /\ Topics[1].title = TitleX
  /\ Topics[2].title = TitleX
  /\ Len(Topics[1].content) < 50
  /\ Len(Topics[2].content) >= 60

\* C10 as stated: the index returns the second topic under "x", and the
\* validation has one duplicate_key and no empty_content diagnostic.
ShortThenLongNoEmptyContent ==
  ShortThenLong =>
    /\ MapGet(index.topicIndex, KeyX) = Topics[2]
    /\ CountOfType(errors, "duplicate_key") = 1
    /\ CountOfType(errors, "empty_content") = 0

\* C10 amended: the index returns the second topic under "x", and the
\* validation has one duplicate_key diagnostic, for the second topic, and one
\* empty_content diagnostic, for the first (shadowed) topic.
ShortThenLongOneEmptyContent ==
  ShortThenLong =>
    /\ MapGet(index.topicIndex, KeyX) = Topics[2]
    /\ CountOfType(errors, "duplicate_key") = 1
    /\ CountOfType(errors, "empty_content") = 1
    /\ errors[1].type = "empty_content"
    /\ errors[2].type = "duplicate_key"
ShortThenLongWitness ==
  ShortThenLong /\ Len(Topics[1].content) = 49 /\ Len(errors) = 2

----
\* Further properties of the index builder and of the validator, checked
\* under Spec.

\* Topic p is shadowed: a later topic has its key.
Shadowed(p) == \E q \in Positions : q > p /\ Topics[q].key = Topics[p].key
BlankTitle(p) ==
  \A i \in 1..Len(Topics[p].title) : Topics[p].title[i] \in Whitespace
ThinContent(p) == TrimmedLength(Topics[p].content) < 50
WithoutDuplicateKey(diagnostics) ==
  LET Other(d) == d.type # "duplicate_key" IN SelectSeq(diagnostics, Other)

\* What validateTopics reports for topic p when it is the only topic of the
\* categories, the map being the one of the index.
ErrorsAlone(p) ==
  validateTopics([categories |-> <<[title |-> <<"A">>, topics |-> <<Topics[p]>>]>>,
                  topicIndex |-> index.topicIndex])

\* C11: a topic shadowed in topicIndex by a later topic with its key still
\* gets its own missing_title, empty_content and invalid_prerequisite
\* diagnostics, the same as if it were not a duplicate.
ShadowedTopicsValidated ==
  pc = "validated" =>
    \A p \in Positions :
      Shadowed(p) =>
        /\ CountOfType(ErrorsOfTopic(p), "missing_title") =
             IF BlankTitle(p) THEN 1 ELSE 0
        /\ CountOfType(ErrorsOfTopic(p), "empty_content") =
             IF ThinContent(p) THEN 1 ELSE 0
        /\ CountOfType(ErrorsOfTopic(p), "invalid_prerequisite") =
             Cardinality(Dangling(Topics[p].metadata.prerequisites))
        /\ WithoutDuplicateKey(ErrorsOfTopic(p)) = ErrorsAlone(p)
ShadowedTopicsValidatedWitness ==
  /\ pc = "validated"
  /\ \E p, q \in Positions :
       /\ Shadowed(p)
       /\ Shadowed(q)
       /\ MapGet(index.topicIndex, Topics[p].key) # Topics[p]
       /\ CountOfType(ErrorsOfTopic(p), "empty_content") = 1
       /\ CountOfType(ErrorsOfTopic(q), "invalid_prerequisite") = 1
       /\ CountOfType(ErrorsOfTopic(q), "duplicate_key") = 1

\* The number of topics with key k, and of warnings about key k.
TopicsWithKey(k) == Cardinality({p \in Positions : Topics[p].key = k})
WarningsAbout(k) == Cardinality({i \in 1..Len(console) : console[i].key = k})

TopicFields == {"ref", "key", "title", "content", "metadata"}
Defective(p) ==
  \/ \E q \in 1..(p - 1) : Topics[q].key = Topics[p].key
  \/ BlankTitle(p)
  \/ ThinContent(p)
  \/ Dangling(Topics[p].metadata.prerequisites) # {}

CategoriesReachableByKey ==
  Built =>
    \A p \in Positions :
      /\ MapHas(index.topicIndex, Topics[p].key)
      /\ ~Shadowed(p) => MapGet(index.topicIndex, Topics[p].key) = Topics[p]
CategoriesReachableByKeyWitness ==
  /\ pc = "built"
  /\ Len(Topics) = 3
  /\ Shadowed(1)
  /\ ~Shadowed(2)
  /\ Topics[3].key = <<>>
  /\ Topics[3].title # <<>>

\* C20: the categories of the built index are the authored categories: the
\* same categories in the same order, each with the same topics in the same
\* order, the shadowed topics among them.
HierarchyPreserved ==
  Built =>
    /\ Len(index.categories) = Len(categories)
    /\ \A c \in 1..Len(categories) :
         /\ index.categories[c].title = categories[c].title
         /\ index.categories[c].topics = categories[c].topics
    /\ index.categories = categories
HierarchyPreservedWitness ==
  /\ pc = "built"
  /\ Len(index.categories) = 2
  /\ Len(index.categories[1].topics) = 2
  /\ Len(index.categories[2].topics) = 1
  /\ Shadowed(1)
  /\ Shadowed(2)
  /\ index.categories[1].topics[1].content # index.categories[1].topics[2].content

----
\* Properties of the query layer, checked under SpecQuery.

IndexedTopics == {index.topicIndex[i].value : i \in 1..Len(index.topicIndex)}
Returned == {response[i] : i \in 1..Len(response)}
HasTag(t, tag) == \E j \in 1..Len(t.metadata.tags) : t.metadata.tags[j] = tag
CategoryOf(t) ==
  {c \in 1..Len(index.categories) :
     \E i \in 1..Len(index.categories[c].topics) : index.categories[c].topics[i] = t}

\* C12: getTopicsByTag returns the topics of the index that carry the tag,
\* each once and no other, whatever their category; a topic of the categories
\* that no later topic shadows is a topic of the index.
TagQuery ==
  request.op = "getTopicsByTag" =>
    /\ Returned = {t \in IndexedTopics : HasTag(t, request.tag)}
    /\ Len(response) = Cardinality(Returned)
    /\ \A p \in Positions :
         (~Shadowed(p) /\ HasTag(Topics[p], request.tag)) => Topics[p] \in Returned
TagQueryWitness ==
  /\ request.op = "getTopicsByTag"
  /\ request.tag = "hooks"
  /\ Len(response) = 2
  /\ CategoryOf(response[1]) # CategoryOf(response[2])
  /\ \E i \in 1..2 : response[i].metadata.tags = <<"state", "hooks">>
  /\ Len(Topics) = 3
  /\ \E p \in Positions : Topics[p].metadata.tags = <<>>

\* C13: getTopicsByDifficulty returns the topics of the index of that
\* difficulty, each once and no other, whatever their category; every topic
\* of the index is in the result of exactly one of the three difficulties.
DifficultyQuery ==
  /\ request.op = "getTopicsByDifficulty" =>
       /\ Returned = {t \in IndexedTopics : t.metadata.difficulty = request.difficulty}
       /\ Len(response) = Cardinality(Returned)
       /\ \A p \in Positions :
            (~Shadowed(p) /\ Topics[p].metadata.difficulty = request.difficulty)
              => Topics[p] \in Returned
  /\ pc = "validated" =>
       \A t \in IndexedTopics :
         Cardinality({d \in {"beginner", "intermediate", "advanced"} :
           \E i \in 1..Len(getTopicsByDifficulty(index.topicIndex, d)) :
             getTopicsByDifficulty(index.topicIndex, d)[i] = t}) = 1
DifficultyQueryWitness ==
  /\ request.op = "getTopicsByDifficulty"
  /\ request.difficulty = "beginner"
  /\ Len(response) = 2
  /\ CategoryOf(response[1]) # CategoryOf(response[2])
  /\ Len(index.topicIndex) = 2
  /\ Len(Topics) = 3

\* C14: getTopic returns the topic the index holds under the key, or the
\* absent value; getAllTopicKeys returns the distinct keys of the topics of
\* the categories, each once; every entry of the index is a topic of the
\* categories under its own key.
KeyQueries ==
  /\ request.op = "getTopic" =>
       IF \E p \in Positions : Topics[p].key = request.key
       THEN \E p \in Positions :
              /\ Topics[p].key = request.key
              /\ ~Shadowed(p)
              /\ response = Topics[p]
       ELSE response = Undefined
  /\ request.op = "getAllTopicKeys" =>
       /\ Returned = {Topics[p].key : p \in Positions}
       /\ Len(response) = Cardinality(Returned)
  /\ pc = "validated" =>
       \A i \in 1..Len(index.topicIndex) :
         \E p \in Positions :
           /\ index.topicIndex[i].value = Topics[p]
           /\ index.topicIndex[i].key = Topics[p].key
KeyQueriesWitness ==
  /\ request.op = "getAllTopicKeys"
  /\ Len(response) = 2
  /\ Len(Topics) = 3
  /\ Shadowed(1)

\* The number of diagnostics topic p must get.
DefectsOf(p) ==
  (IF \E q \in 1..(p - 1) : Topics[q].key = Topics[p].key THEN 1 ELSE 0)
  + (IF BlankTitle(p) THEN 1 ELSE 0)
  + (IF ThinContent(p) THEN 1 ELSE 0)
  + Cardinality(Dangling(Topics[p].metadata.prerequisites))
RECURSIVE DefectsUpTo(_)
DefectsUpTo(n) == IF n = 0 THEN 0 ELSE DefectsUpTo(n - 1) + DefectsOf(n)

\* C16: validateTopics goes through every topic and returns the diagnostics
\* of all of them, and it leaves the index as it was; a query leaves the
\* index as it was.
ValidationAndQueriesPure ==
  [][/\ (pc = "built" /\ pc' = "validated") =>
          /\ index' = index
          /\ categories' = categories
          /\ Len(errors') = DefectsUpTo(Len(Topics))
     /\ (request' # request \/ response' # response) =>
          /\ index' = index
          /\ categories' = categories
          /\ errors' = errors]_vars
ValidationAndQueriesPureWitness ==
  /\ pc = "validated"
  /\ Len(errors) = 2
  /\ errors[2].type = "duplicate_key"
  /\ request.op = "getTopicsByTag"
  /\ response # <<>>
  /\ index.categories = categories

----
\* Properties of the topic helpers, checked under SpecTopic.

DefaultOf(f) == IF f = "difficulty" THEN "intermediate" ELSE <<>>

\* C17: the key of a created topic is the generated key of its title; each
\* metadata field is the supplied override, or its default when none is
\* supplied.
TopicConstruction ==
  pc = "return" =>
    /\ DOMAIN response = {"ref", "key", "title", "content", "metadata"}
    /\ response.title = request.title
    /\ response.content = request.content
    /\ response.key = generateTopicKey(request.title)
    /\ request.title = VarLetConst => response.key = VarLetConstKey
    /\ request.title = UseState => response.key = UseStateKey
    /\ DOMAIN response.metadata = {"difficulty", "tags", "prerequisites"}
    /\ request.op = "createTopic" =>
         \A f \in DOMAIN response.metadata :
           response.metadata[f] = IF f \in DOMAIN request.metadata
                                  THEN request.metadata[f] ELSE DefaultOf(f)
    /\ request.op = "topic" =>
         /\ response.metadata.tags =
              IF Len(request.rest) >= 1 THEN request.rest[1] ELSE <<>>
         /\ response.metadata.difficulty =
              IF Len(request.rest) >= 2 THEN request.rest[2] ELSE "intermediate"
         /\ response.metadata.prerequisites =
              IF Len(request.rest) >= 3 THEN request.rest[3] ELSE <<>>
TopicConstructionWitness ==
  /\ pc = "return"
  /\ request.op = "createTopic"
  /\ request.title = VarLetConst
  /\ DOMAIN request.metadata = {"tags"}
  /\ response.metadata.tags = <<"hooks">>
  /\ response.metadata.difficulty = "intermediate"
  /\ response.metadata.prerequisites = <<>>

----
\* Properties of the index module of a section, checked under SpecModule.

\* What assertValidTopics has printed.
ValidationOutput ==
  SelectSeq(console, LAMBDA m : m.text \in {"Topic validation errors:",
                                            "Found topic validation error(s)"})
Initialized == pc \in {"asserted", "exported"}

ValidationGatedOnDev ==
  Initialized =>
    /\ (~env.DEV => errors = <<>> /\ ValidationOutput = <<>>)
    /\ (env.DEV =>
          /\ Len(errors) = DefectsUpTo(Len(Topics))
          /\ (errors = <<>> => ValidationOutput = <<>>)
          /\ (errors # <<>> =>
                /\ Len(ValidationOutput) = 2
                /\ ValidationOutput[1].level = "error"
                /\ ValidationOutput[1].errors = errors
                /\ ValidationOutput[2].level = "warn"
                /\ ValidationOutput[2].count = Len(errors)))
ValidationGatedOnDevWitness ==
  /\ pc = "asserted"
  /\ ~env.DEV
  /\ DefectsUpTo(Len(Topics)) >= 4
  /\ ValidationOutput = <<>>

----
\* The reference algorithm of the key generator, each step stated on the
\* positions of its input.
RefLetters ==
  {"a","b","c","d","e","f","g","h","i","j","k","l","m",
   "n","o","p","q","r","s","t","u","v","w","x","y","z"}
RefDigits == {"0","1","2","3","4","5","6","7","8","9"}
RefWhitespace == {" ", "\t", "\n"}

\* Step 1: lowercase the entire string.
RefLowercase(s) ==
  LET pairs == {<<"A","a">>, <<"B","b">>, <<"C","c">>, <<"D","d">>, <<"E","e">>,
                <<"F","f">>, <<"G","g">>, <<"H","h">>, <<"I","i">>, <<"J","j">>,
                <<"K","k">>, <<"L","l">>, <<"M","m">>, <<"N","n">>, <<"O","o">>,
                <<"P","p">>, <<"Q","q">>, <<"R","r">>, <<"S","s">>, <<"T","t">>,
                <<"U","u">>, <<"V","v">>, <<"W","w">>, <<"X","x">>, <<"Y","y">>,
                <<"Z","z">>}
      low(c) == IF \E q \in pairs : q[1] = c
                THEN (CHOOSE q \in pairs : q[1] = c)[2] ELSE c
  IN [i \in 1..Len(s) |-> low(s[i])]

\* The pieces, one for each position of the input, put together.
RECURSIVE RefConcat(_)
RefConcat(pieces) ==
  IF pieces = <<>> THEN <<>>
  ELSE RefConcat(SubSeq(pieces, 1, Len(pieces) - 1)) \o pieces[Len(pieces)]

\* Step 2: delete every character that is not a lowercase letter, a digit,
\* whitespace or a hyphen.
RefDelete(s) ==
  RefConcat([i \in 1..Len(s) |->
               IF s[i] \in RefLetters \cup RefDigits \cup RefWhitespace \cup {"-"}
               THEN <<s[i]>> ELSE <<>>])

\* Steps 3 and 4: a run of characters of class becomes one hyphen: its first
\* character becomes the hyphen and the others go.
RefRuns(s, class) ==
  RefConcat([i \in 1..Len(s) |->
               IF s[i] \notin class THEN <<s[i]>>
               ELSE IF i = 1 \/ s[i - 1] \notin class THEN <<"-">> ELSE <<>>])

\* Step 5: remove one leading and one trailing hyphen.
RefTrimHyphen(s) ==
  LET first == IF Len(s) >= 1 /\ s[1] = "-" THEN 2 ELSE 1
      last == IF Len(s) >= first /\ s[Len(s)] = "-" THEN Len(s) - 1 ELSE Len(s)
  IN [i \in 1..(last - first + 1) |-> s[first + i - 1]]

\* Step 6: trim surrounding whitespace.
RefTrimWhitespace(s) ==
  LET solid == {i \in 1..Len(s) : s[i] \notin RefWhitespace}
  IN IF solid = {} THEN <<>>
     ELSE LET first == CHOOSE i \in solid : \A j \in solid : i <= j
              last == CHOOSE i \in solid : \A j \in solid : j <= i
          IN [i \in 1..(last - first + 1) |-> s[first + i - 1]]

ReferenceKey(s) ==
  RefTrimWhitespace(RefTrimHyphen(RefRuns(RefRuns(RefDelete(RefLowercase(s)),
                                                  RefWhitespace), {"-"})))

\* C23: the key of every title is what the six steps of the reference
\* algorithm give, applied in their order: lowercase, delete the disallowed
\* characters, whitespace runs to one hyphen, hyphen runs to one hyphen,
\* remove one leading and one trailing hyphen, trim.
KeyMatchesReference ==
  /\ (pc \in {"key", "rekey"} => key = ReferenceKey(title))
  /\ (pc = "rekey" => rekey = ReferenceKey(key))
KeyMatchesReferenceWitness ==
  /\ pc = "key"
  /\ Len(title) = MaxTitleLen
  /\ title[1] = "-"
  /\ title[Len(title)] = "-"
  /\ \E i \in 1..Len(title) : title[i] = "B"
  /\ \E i \in 1..(Len(title) - 1) :
       title[i] \in RefWhitespace /\ title[i + 1] = "-"
  /\ key = <<"b">>

----
\* Properties of colliding keys, checked under SpecCollision.

\* Topic p has the empty key and nothing the validator looks for: its title
\* is not blank, its content is long enough, its prerequisites resolve.
Degenerate(p) ==
  /\ Topics[p].key = <<>>
  /\ ~BlankTitle(p)
  /\ ~ThinContent(p)
  /\ Dangling(Topics[p].metadata.prerequisites) = {}
EarlierWithKey(p) == {q \in 1..(p - 1) : Topics[q].key = Topics[p].key}

\* C24: the empty key is not flagged as such.  A topic with the empty key, a
\* title that is not blank and a content of at least 50 characters gets no
\* diagnostic when it is the first with the empty key, and exactly one
\* duplicate_key diagnostic (on the key "") when an earlier topic has the
\* empty key; topicIndex.get("") is the last topic with the empty key.
EmptyKeyNotFlagged ==
  pc = "validated" =>
    /\ \A p \in Positions :
         Degenerate(p) =>
           /\ (EarlierWithKey(p) = {} => ErrorsOfTopic(p) = <<>>)
           /\ (EarlierWithKey(p) # {} =>
                 /\ Len(ErrorsOfTopic(p)) = 1
                 /\ ErrorsOfTopic(p)[1].type = "duplicate_key"
                 /\ ErrorsOfTopic(p)[1].topic = <<>>)
           /\ (\A q \in Positions : q > p => Topics[q].key # <<>>) =>
                MapGet(index.topicIndex, <<>>) = Topics[p]
           /\ (\E q \in Positions : q > p /\ Topics[q].key = <<>>) =>
                MapGet(index.topicIndex, <<>>) # Topics[p]
    /\ (Len(Topics) = 1 /\ Degenerate(1)) => errors = <<>>
    /\ (Len(Topics) = 2 /\ Degenerate(1) /\ Degenerate(2)) =>
         /\ Len(errors) = 1
         /\ errors[1].type = "duplicate_key"
         /\ Len(index.topicIndex) = 1
         /\ MapGet(index.topicIndex, <<>>) = Topics[2]
EmptyKeyNotFlaggedWitness ==
  /\ pc = "validated"
  /\ Len(Topics) = 2
  /\ Degenerate(1)
  /\ Degenerate(2)
  /\ Topics[1].title = Question
  /\ Topics[2].title = Bangs
  /\ Len(Topics[2].content) = 50
  /\ Len(errors) = 1

\* C28: the validator reports as many duplicate keys as the builder has
\* overwritten entries: the number of duplicate_key diagnostics is the number
\* of topics of all categories minus the number of entries of topicIndex.
ShadowingAgreed ==
  pc = "validated" =>
    CountOfType(errors, "duplicate_key") = Len(Topics) - Len(index.topicIndex)
ShadowingAgreedWitness ==
  /\ pc = "validated"
  /\ Len(index.categories) = 2
  /\ Len(Topics) = 3
  /\ Len(index.topicIndex) = 1
  /\ index.categories[1].topics # <<>>
  /\ index.categories[2].topics # <<>>
  /\ CountOfType(errors, "duplicate_key") = 2
  /\ CountOfType(errors, "empty_content") >= 1

----
\* Properties of prerequisites among the topics, checked under SpecLinked.

\* The category that holds the topic at position p.
RECURSIVE CategoryAt(_, _)
CategoryAt(p, c) ==
  IF p <= Len(index.categories[c].topics) THEN c
  ELSE CategoryAt(p - Len(index.categories[c].topics), c + 1)
Authored(k) == \E q \in Positions : Topics[q].key = k
InvalidPrerequisites(p) ==
  LET Invalid(d) == d.type = "invalid_prerequisite"
  IN SelectSeq(ErrorsOfTopic(p), Invalid)

\* C29: a prerequisite is looked up in the finished topicIndex: topic p gets
\* one invalid_prerequisite diagnostic for each prerequisite that no topic of
\* any category has as its key, and none for a prerequisite that is the key
\* of a later topic, of a topic of another category, of p itself or of
\* several topics.
PrerequisitesAgainstWholeIndex ==
  pc = "validated" =>
    \A p \in Positions :
      LET pre == Topics[p].metadata.prerequisites
      IN /\ Len(InvalidPrerequisites(p))
              = Cardinality({i \in 1..Len(pre) : ~Authored(pre[i])})
         /\ \A i \in 1..Len(InvalidPrerequisites(p)) :
              /\ ~Authored(InvalidPrerequisites(p)[i].message.args[2])
              /\ InvalidPrerequisites(p)[i].topic = Topics[p].key
         /\ \A i \in 1..Len(pre) :
              (\/ \E q \in Positions : q > p /\ Topics[q].key = pre[i]
               \/ \E q \in Positions :
                    CategoryAt(q, 1) # CategoryAt(p, 1) /\ Topics[q].key = pre[i]
               \/ Topics[p].key = pre[i]
               \/ Cardinality({q \in Positions : Topics[q].key = pre[i]}) > 1)
              => \A j \in 1..Len(InvalidPrerequisites(p)) :
                   InvalidPrerequisites(p)[j].message.args[2] # pre[i]
PrerequisitesAgainstWholeIndexWitness ==
  /\ pc = "validated"
  /\ Len(Topics) = 3
  /\ Len(index.categories) = 2
  /\ Len(index.categories[1].topics) = 1
  /\ Topics[1].key = KeyX
  /\ Topics[1].metadata.prerequisites = <<KeyY>>
  /\ Topics[2].key = KeyY
  /\ Topics[2].metadata.prerequisites = <<KeyY>>
  /\ Topics[3].key = KeyY
  /\ CountOfType(errors, "invalid_prerequisite") = 0
  /\ CountOfType(errors, "duplicate_key") = 1

----
\* Properties of the route helpers, checked under SpecRoute.

IsPrefix(p, s) == Len(p) <= Len(s) /\ \A i \in 1..Len(p) : s[i] = p[i]
\* The base path of a section: "/" and the name of the topic type.
SectionPath(type) == <<"/">> \o type
Routed == request.op \in {"getTopicRoute", "TopicSection"}
\* The topic a route was asked for: none, or a key.
RoutedTopic ==
  IF request.op = "TopicSection" THEN <<request.topic.key>> ELSE request.rest

\* C26: the topic type read back from a route is the topic type the route was
\* made for, with a topic key and without one, and a pathname that starts
\* with none of the four section paths has no topic type.
RouteRoundTrip ==
  pc = "type" =>
    /\ (Routed => topicType = request.type)
    /\ (request.op = "getTopicTypeFromPath" =>
          /\ (\A t \in TopicTypes : ~IsPrefix(SectionPath(t), request.pathname))
               => topicType = Null
          /\ \A t \in TopicTypes :
               IsPrefix(SectionPath(t), request.pathname) => topicType = t)
RouteRoundTripWitness ==
  /\ pc = "type"
  /\ request.op = "TopicSection"
  /\ request.type = StrAngular
  /\ request.topic.key = VarLetConstKey
  /\ topicType = StrAngular

\* C30: the route of the empty key is the base path of the section, which is
\* also the route asked for without a topic, and the route of any other key
\* is the base path, "/" and the key.
EmptyKeyRoute ==
  (pc \in {"route", "type"} /\ Routed) =>
    /\ (RoutedTopic = <<>> \/ RoutedTopic = <<<<>>>>)
         => response = SectionPath(request.type)
    /\ (RoutedTopic # <<>> /\ RoutedTopic # <<<<>>>>)
         => response = SectionPath(request.type) \o <<"/">> \o RoutedTopic[1]
EmptyKeyRouteWitness ==
  /\ pc = "route"
  /\ request.op = "TopicSection"
  /\ request.topic.title = Bangs
  /\ request.topic.key = <<>>
  /\ response = SectionPath(StrReact)

----
\* Properties of the Content view, checked under SpecContent.

\* The sections the pathname of the call belongs to, and whether a category
\* of the data of such a section has the topic of the call among its topics.
SectionsOfCall ==
  {t \in TopicTypes : IsPrefix(SectionPath(t), request.pathname)}
TopicGiven == "topic" \in DOMAIN request.props
TopicInData ==
  \E t \in SectionsOfCall \cap DOMAIN topicDataMap :
    \E c \in 1..Len(topicDataMap[t]) :
      request.props.topic \in DOMAIN topicDataMap[t][c].topics

\* C27: the view is in exactly one of four states: the topic when a category
\* of the section's data contains the topic given, 'Invalid Section' when a
\* topic is given and the pathname is of no section, 'Topic Not Found' when
\* a topic is given in a section and no category contains it, and the
\* welcome state when no topic is given.
ContentViewStates ==
  pc = "rendered" =>
    /\ response.state \in {"Topic", "Invalid Section", "Topic Not Found", "Welcome"}
    /\ response.state = "Topic" <=> (TopicGiven /\ TopicInData)
    /\ response.state = "Invalid Section" <=> (TopicGiven /\ SectionsOfCall = {})
    /\ response.state = "Topic Not Found"
         <=> (TopicGiven /\ SectionsOfCall # {} /\ ~TopicInData)
    /\ response.state = "Welcome" <=> ~TopicGiven

====
